---- MODULE Spec2Model ----
(***************************************************************************)
(* Model of cgp/utils/load_memmap_offset.py: memmap_chunk_ind, open_memmap *)
(* and the numpy calls they make (format header codec, np.memmap).         *)
(*                                                                         *)
(* A file is a sequence of byte cells (naturals).  The .npy layout is      *)
(* kept cell for cell but scaled down: a magic prefix, two version cells,  *)
(* a header-length cell, the header record (descr, fortran_order, shape),  *)
(* space padding and a newline up to an aligned boundary, then the raw     *)
(* element data, itemsize cells per element, little endian.                *)
(***************************************************************************)
EXTENDS Integers, Sequences, FiniteSets, TLC

VARIABLES
    disk,   \* filename -> [exists, cells]: the file system
    views,  \* the memmap objects alive in the calling process
    last,   \* the most recent call: arguments, outcome, steps taken, disk before
    steps,  \* number of calls, assignments and releases made so far
    mark,   \* the latest assignment view[0] = val through a read-write memmap:
            \* the file, the element offset the memmap was opened with, the bytes
    made,   \* the latest file open_memmap created: its arguments and the byte
            \* offset at which the creator mapped the data
    work    \* worker processes sharing a file: each one's indices, position and
            \* memmap; the file as it was; per element, the value last assigned.
            \* For a single script: the file as it was before its first
            \* assignment through the current read-write memmap, the window
            \* <<offset, length>> of that memmap, and the pairs <<element, value>>
            \* last assigned

vars == <<disk, views, last, steps, mark, made, work>>

(***************************************************************************)
(* Bounds of the model.                                                    *)
(***************************************************************************)
MaxN == 3        \* stored 1-D arrays have 1..MaxN elements
MaxIdx == 3      \* indices and offsets range over -NegIdx..MaxIdx
NegIdx == 1
MaxLen == 3      \* index collections have at most MaxLen entries
MaxSteps == 4    \* operations in one run of the calling script

(***************************************************************************)
(* Byte-level constants of the (scaled) array format.                      *)
(***************************************************************************)
MAGIC_PREFIX == <<147, 78>>          \* '\x93' 'N(UMPY)'
N == Len(MAGIC_PREFIX)
Align == 16
Space == 32
Newline == 10
KindInt == 105                       \* 'i'
KindObject == 79                     \* 'O'
KindFloat == 102                     \* 'f'
Base == 256

None == <<>>                         \* shape=None (0-d shapes are not modelled)

PickleNone == <<78, 46>>             \* 'N.': the pickle of one object
ZIP_PREFIX == <<80>>                 \* 'P(K\x03\x04)', shorter than the magic prefix
ZipArchive == <<80, 75>>             \* a (scaled) zip archive
NoMode == ""                         \* mmap_mode=None

FileNames == {"test.npy", "new.npy"}     \* new.npy does not exist at first
NoFile == [exists |-> FALSE, cells |-> <<>>]

(***************************************************************************)
(* Small helpers.                                                          *)
(***************************************************************************)
RECURSIVE Prod(_)
Prod(s) == IF s = <<>> THEN 1 ELSE Head(s) * Prod(Tail(s))

RECURSIVE Fill(_, _)
Fill(n, c) == IF n <= 0 THEN <<>> ELSE <<c>> \o Fill(n - 1, c)

Min(S) == CHOOSE x \in S : \A y \in S : x <= y
Max(S) == CHOOSE x \in S : \A y \in S : x >= y
Range(s) == {s[i] : i \in 1..Len(s)}

(***************************************************************************)
(* dtypes: fixed-size integers of 1 and 2 bytes, and the object dtype.     *)
(***************************************************************************)
Int1 == [kind |-> KindInt, itemsize |-> 1]
Int2 == [kind |-> KindInt, itemsize |-> 2]
Obj == [kind |-> KindObject, itemsize |-> 8]
Float64 == [kind |-> KindFloat, itemsize |-> 8]     \* np.dtype(None)

\* mutant: no dtype is taken to hold Python objects
hasobject_Never(dtype) == FALSE

hasobject(dtype) == dtype.kind = KindObject

\* little-endian encoding of an element value in itemsize cells
RECURSIVE Encode(_, _)
Encode(v, itemsize) ==
    IF itemsize = 0 THEN <<>>
    ELSE <<v % Base>> \o Encode(v \div Base, itemsize - 1)

\* np.arange(n) stored with the given dtype
RECURSIVE ArangeBytes(_, _, _)
ArangeBytes(from, n, itemsize) ==
    IF from >= n THEN <<>>
    ELSE Encode(from, itemsize) \o ArangeBytes(from + 1, n, itemsize)

(***************************************************************************)
(* numpy.lib.format: magic, write_array_header_1_0, read_magic,            *)
(* read_array_header_1_0.                                                  *)
(***************************************************************************)
magic(version) == MAGIC_PREFIX \o <<version[1], version[2]>>

dtype_to_descr(dtype) == <<dtype.kind, dtype.itemsize>>

\* the shape entry of the header record: the number of dimensions and the
\* dimensions; shape=None is written as the word None, which is no tuple
NoneCell == 78
ShapeCells(shape) == IF shape = <<>> THEN <<NoneCell>> ELSE <<Len(shape)>> \o shape

\* mutant: the header always announces C order
write_array_header_1_0_COrder(d) ==
    LET rec == d.descr \o <<0>> \o ShapeCells(d.shape)
        cur == N + 2 + 1 + Len(rec) + 1
        topad == (Align - (cur % Align)) % Align
        body == rec \o Fill(topad, Space) \o <<Newline>>
    IN  <<Len(body)>> \o body

\* d = [descr, fortran_order, shape]; the cells written after the magic
write_array_header_1_0(d) ==
    LET rec == d.descr \o <<(IF d.fortran_order THEN 1 ELSE 0)>>
                 \o ShapeCells(d.shape)
        cur == N + 2 + 1 + Len(rec) + 1
        topad == (Align - (cur % Align)) % Align
        body == rec \o Fill(topad, Space) \o <<Newline>>
    IN  <<Len(body)>> \o body

\* read_magic(fp) at position 0: [ok, version, pos]
read_magic(cells) ==
    IF Len(cells) < N + 2 \/ SubSeq(cells, 1, N) # MAGIC_PREFIX
    THEN [ok |-> FALSE, version |-> <<0, 0>>, pos |-> 0]
    ELSE [ok |-> TRUE, version |-> <<cells[N + 1], cells[N + 2]>>, pos |-> N + 2]

\* read_array_header_1_0(fp) with fp at pos: [ok, shape, fortran_order, dtype, pos]
read_array_header_1_0(cells, pos) ==
    LET bad == [ok |-> FALSE, shape |-> <<>>, fortran_order |-> FALSE,
                dtype |-> Int1, pos |-> pos]
    IN  IF Len(cells) < pos + 1 THEN bad
        ELSE LET L == cells[pos + 1]
             IN IF Len(cells) < pos + 1 + L \/ L < 5 THEN bad
                ELSE LET rec == SubSeq(cells, pos + 2, pos + 1 + L)
                         ndim == rec[4]
                     IN IF \/ rec[1] \notin {KindInt, KindObject, KindFloat}
                           \/ rec[2] \notin {1, 2, 8}
                           \/ rec[3] \notin {0, 1}
                           \/ L < 4 + ndim + 1
                           \/ rec[L] # Newline
                           \/ \E i \in (5 + ndim)..(L - 1) : rec[i] # Space
                        THEN bad
                        ELSE [ok |-> TRUE,
                              shape |-> SubSeq(rec, 5, 4 + ndim),
                              fortran_order |-> rec[3] = 1,
                              dtype |-> [kind |-> rec[1], itemsize |-> rec[2]],
                              pos |-> pos + 1 + L]

\* the file np.save(filename, arr) leaves: header, then the data
SavedFile(version, dtype, shape, fortran_order, data) ==
    [exists |-> TRUE,
     cells |-> magic(version)
               \o write_array_header_1_0([descr |-> dtype_to_descr(dtype),
                                          fortran_order |-> fortran_order,
                                          shape |-> shape])
               \o data]

(***************************************************************************)
(* Call results.  A call yields its outcome ("ok" or the exception), the   *)
(* steps it took, the disk it leaves and the memmap it returns (a sequence *)
(* of zero or one view).                                                   *)
(***************************************************************************)
Raise(d, exc, trace) == [outcome |-> exc, trace |-> trace, disk |-> d, view |-> <<>>]

valid_filemodes == {"r", "c", "r+", "w+"}
HasW(mode) == mode \in {"w", "w+"}                 \* 'w' in mode

(***************************************************************************)
(* np.memmap(filename, dtype, shape, order, mode, offset) as called on     *)
(* lines 199-200; offset is a byte offset, shape a tuple of dimensions.    *)
(* argOffset is carried along only to label the view with the element      *)
(* offset the caller asked for.                                            *)
(***************************************************************************)
memmap(d, filename, dtype, shape, order, mode, offset, argOffset, trace) ==
    IF mode \notin valid_filemodes
    THEN Raise(d, "ValueError: mode", trace)
    ELSE IF ~d[filename].exists
    THEN Raise(d, "IOError: open", trace)
    ELSE
    LET cells == d[filename].cells
        flen == Len(cells)
        avail == IF flen > offset THEN flen - offset ELSE 0
        shape1 == IF shape = None THEN <<avail \div dtype.itemsize>> ELSE shape
        size == Prod(shape1)
        bytes == offset + size * dtype.itemsize
        grow == mode = "w+" \/ (mode = "r+" /\ flen < bytes)
        cells1 == IF ~grow THEN cells
                  ELSE IF bytes > flen
                       THEN cells \o Fill(bytes - 1 - flen, 0) \o <<0>>
                       ELSE [cells EXCEPT ![bytes] = 0]
        d1 == [d EXCEPT ![filename].cells = cells1]
        tr == trace \o <<"memmap">>
    IN  IF shape = None /\ (flen < offset \/ avail % dtype.itemsize # 0)
        THEN Raise(d, "ValueError: Size of available data is not a multiple of data-type size", tr)
        ELSE IF grow /\ bytes < 1
        THEN Raise(d, "IOError: seek", tr)
        ELSE IF offset < 0 \/ bytes < 0
        THEN Raise(d1, "ValueError: mmap offset", tr)
        ELSE IF bytes > Len(cells1)
        THEN Raise(d1, "ValueError: mmap length is greater than file size", tr)
        ELSE IF \E i \in 1..Len(shape1) : shape1[i] < 0
        THEN Raise(d1, "ValueError: negative dimensions", tr)
        ELSE [outcome |-> "ok", trace |-> tr, disk |-> d1,
              view |-> <<[filename |-> filename, mode |-> mode, offset |-> offset,
                          shape |-> shape1, dtype |-> dtype, order |-> order,
                          argOffset |-> argOffset, priv |-> <<>>]>>]

(***************************************************************************)
(* open_memmap, lines 137-202.                                             *)
(***************************************************************************)
\* lines 189-202: order, 'w+' -> 'r+', np.memmap
MapFile(d, filename, mode, dtype, shape, fortran_order, offset, argOffset, trace) ==
    LET order == IF fortran_order THEN "F" ELSE "C"
        mode1 == IF mode = "w+" THEN "r+" ELSE mode
    IN  memmap(d, filename, dtype, shape, order, mode1, offset, argOffset, trace)

\* mutant: only the major version is looked at, and 2 is let through
VersionSupported_Lenient(version) == version[1] \in {1, 2}

\* lines 145 and 172: version != (1, 0) is refused
VersionSupported(version) == version = <<1, 0>>

\* mutant: the offset is not taken off the outer dimension
DefaultShape_Full(fullshape, offset) == fullshape

\* lines 176-181: the shape of the view when the caller gives none
DefaultShape(fullshape, offset) ==
    IF offset # 0
    THEN [fullshape EXCEPT ![1] = fullshape[1] - offset]
    ELSE fullshape

\* mutants: the element offset is not scaled by the item size; is dropped
ByteOffset_Unscaled(tell, offset, itemsize) == tell + offset
ByteOffset_Dropped(tell, offset, itemsize) == tell

\* line 185: offset = fp.tell() + offset * dtype.itemsize
ByteOffset(tell, offset, itemsize) == tell + offset * itemsize

\* mutant: any offset is let through when the file is created
OffsetAllowedOnCreate_Any(offset) == TRUE

\* line 142: assert offset == 0
OffsetAllowedOnCreate(offset) == offset = 0

\* lines 141-166: creating the file
OpenForCreate(d, filename, mode, dtype, shape, fortran_order, version, offset) ==
    IF ~OffsetAllowedOnCreate(offset) THEN Raise(d, "AssertionError: Cannot specify offset when creating memmap", <<>>)
    ELSE IF ~VersionSupported(version) THEN Raise(d, "ValueError: version", <<>>)
    ELSE IF hasobject(dtype) THEN Raise(d, "ValueError: Python objects in dtype", <<>>)
    ELSE
    LET hd == [descr |-> dtype_to_descr(dtype), fortran_order |-> fortran_order,
               shape |-> shape]
        written == magic(version) \o write_array_header_1_0(hd)
        d1 == [d EXCEPT ![filename] = [exists |-> TRUE, cells |-> written]]
        tell == Len(written)
    IN  MapFile(d1, filename, mode, dtype, shape, fortran_order, tell, offset,
                <<"create", "write_magic", "write_header", "close">>)

\* lines 168-187: reading the header of an existing file
OpenExisting(d, filename, mode, shape, offset) ==
    IF ~d[filename].exists THEN Raise(d, "IOError: open", <<>>)
    ELSE
    LET cells == d[filename].cells
        m == read_magic(cells)
        h == read_array_header_1_0(cells, m.pos)
        shape1 == IF shape = None THEN DefaultShape(h.shape, offset) ELSE shape
        offset1 == ByteOffset(h.pos, offset, h.dtype.itemsize)
    IN  IF ~m.ok THEN Raise(d, "ValueError: magic", <<"open", "read_magic", "close">>)
        ELSE IF ~VersionSupported(m.version)
        THEN Raise(d, "ValueError: version", <<"open", "read_magic", "close">>)
        ELSE IF ~h.ok
        THEN Raise(d, "ValueError: header", <<"open", "read_magic", "read_header", "close">>)
        ELSE IF hasobject(h.dtype)
        THEN Raise(d, "ValueError: Python objects in dtype",
                   <<"open", "read_magic", "read_header", "close">>)
        ELSE MapFile(d, filename, mode, h.dtype, shape1, h.fortran_order, offset1, offset,
                     <<"open", "read_magic", "read_header", "close">>)

open_memmap(d, filename, mode, dtype, shape, fortran_order, version, offset) ==
    IF HasW(mode)
    THEN OpenForCreate(d, filename, mode, dtype, shape, fortran_order, version, offset)
    ELSE OpenExisting(d, filename, mode, shape, offset)

(***************************************************************************)
(* memmap_chunk_ind, lines 79-88.                                          *)
(***************************************************************************)
RECURSIVE Insert(_, _)
Insert(x, s) ==
    IF s = <<>> THEN <<x>>
    ELSE IF x <= Head(s) THEN <<x>> \o s
    ELSE <<Head(s)>> \o Insert(x, Tail(s))

\* mutant: the indices are used in the caller's order
sorted_Unsorted(s) == s

RECURSIVE sorted(_)
sorted(s) == IF s = <<>> THEN <<>> ELSE Insert(Head(s), sorted(Tail(s)))

\* np.arange(lo, hi)
arange(lo, hi) == [i \in 1..(hi - lo) |-> lo + i - 1]

\* line 81: offset = isort[0]
ChunkOffset(isort) == isort[1]

\* line 82: shape = 1 + isort[-1] - offset
ChunkShape(isort, offset) == 1 + isort[Len(isort)] - offset

\* mutant: only the number of indices is compared with the covering length
NotContiguous_LengthOnly(indices, isort, offset, shape) == Len(indices) # shape

\* mutant: the caller's order is compared with the expected range
NotContiguous_Unsorted(indices, isort, offset, shape) ==
    LET want == arange(offset, 1 + isort[Len(isort)])
    IN  (Len(indices) # shape) \/ ~(\A i \in 1..Len(indices) : indices[i] = want[i])

\* line 85: the condition under which "Indices not contiguous" is raised
NotContiguous(indices, isort, offset, shape) ==
    LET want == arange(offset, 1 + isort[Len(isort)])
    IN  (Len(indices) # shape) \/ ~(\A i \in 1..Len(isort) : isort[i] = want[i])

\* mutant: the flag is ignored
CheckRequested_Always(check_contiguous) == TRUE

\* line 83: whether the contiguity check is made
CheckRequested(check_contiguous) == check_contiguous

\* lines 81-88, for a non-empty isort: [outcome, trace, disk, view, offset]
ChunkCall(d, filename, indices, isort, mode, check_contiguous) ==
    LET offset == ChunkOffset(isort)
        shape == ChunkShape(isort, offset)
    IN  IF CheckRequested(check_contiguous) /\ NotContiguous(indices, isort, offset, shape)
        THEN [outcome |-> "AssertionError: Indices not contiguous", trace |-> <<>>,
              disk |-> d, view |-> <<>>, offset |-> 0]
        ELSE LET r == open_memmap(d, filename, mode, Float64, <<shape>>, FALSE,
                                  <<1, 0>>, offset)
             IN  [outcome |-> r.outcome, trace |-> r.trace, disk |-> r.disk,
                  view |-> r.view, offset |-> offset]

\* mutant: no index means the whole file from element 0
memmap_chunk_ind_EmptyMapsAll(d, filename, indices, mode, check_contiguous) ==
    IF indices = <<>>
    THEN LET r == open_memmap(d, filename, mode, Float64, None, FALSE, <<1, 0>>, 0)
         IN  [outcome |-> r.outcome, trace |-> r.trace, disk |-> r.disk,
              view |-> r.view, offset |-> 0]
    ELSE ChunkCall(d, filename, indices, sorted(indices), mode, check_contiguous)

\* the call; isort[0] on line 81 raises IndexError when there is no index
memmap_chunk_ind(d, filename, indices, mode, check_contiguous) ==
    LET isort == sorted(indices)
    IN  IF isort = <<>>
        THEN [outcome |-> "IndexError: list index out of range", trace |-> <<>>,
              disk |-> d, view |-> <<>>, offset |-> 0]
        ELSE ChunkCall(d, filename, indices, isort, mode, check_contiguous)

(***************************************************************************)
(* load, lines 264-293.  The file argument is a path, or a file object the *)
(* caller has opened on a file and positioned: [path, name, pos].          *)
(***************************************************************************)
Suffix(cells, pos) == SubSeq(cells, pos + 1, Len(cells))
StartsWith(s, prefix) == Len(s) >= Len(prefix) /\ SubSeq(s, 1, Len(prefix)) = prefix

NoValue == [kind |-> "none", dtype |-> Float64, shape |-> <<>>,
            fortran_order |-> FALSE, data |-> <<>>]

\* what load yields: outcome, steps, disk, memmap, the value returned, whether
\* the magic was peeked at and the position the peek left, the final position
LoadResult(outcome, trace, d, view, value, peeked, peekPos, pos) ==
    [outcome |-> outcome, trace |-> trace, disk |-> d, view |-> view, value |-> value,
     peeked |-> peeked, peekPos |-> peekPos, pos |-> pos]

\* truth values of the arguments tested on line 264: None and "" are false
\* for mmap_mode; None and the integer 0 are false for shape (the shape is
\* given as an integer length <<n>>, as in load(filename, shape=6))
ModeGiven(mmap_mode) == mmap_mode # NoMode
ShapeGiven(shape) == shape # None /\ shape # <<0>>

\* line 264: (not mmap_mode) and (offset or shape)
ArgsNeedMmap(mmap_mode, offset, shape) ==
    ~ModeGiven(mmap_mode) /\ (offset # 0 \/ ShapeGiven(shape))

\* lines 279-280: magic_ = fid.read(N); fid.seek(-N, 1).  read returns what
\* is left when fewer than N bytes remain; seeking a file object before its
\* start raises IOError and leaves it where the read ended
Peek(cells, pos) ==
    LET k == Min({N, Len(cells) - pos})
        afterRead == pos + k
        target == afterRead - N
    IN  [magic_ |-> SubSeq(cells, pos + 1, pos + k),
         ok |-> target >= 0,
         pos |-> IF target >= 0 THEN target ELSE afterRead]

\* np.lib.format.read_array(fid), line 287: [outcome, value, pos]
read_array(cells, pos) ==
    LET s == Suffix(cells, pos)
        m == read_magic(s)
        h == read_array_header_1_0(s, m.pos)
        need == IF hasobject(h.dtype) THEN Len(PickleNone)
                ELSE Prod(h.shape) * h.dtype.itemsize
        data == SubSeq(s, h.pos + 1, h.pos + need)
        bad(exc, at) == [outcome |-> exc, value |-> NoValue, pos |-> pos + at]
    IN  IF ~m.ok THEN bad("ValueError: magic", Min({N + 2, Len(s)}))
        ELSE IF ~VersionSupported(m.version) THEN bad("ValueError: version", m.pos)
        ELSE IF ~h.ok THEN bad("ValueError: header", m.pos)
        ELSE IF Len(s) < h.pos + need THEN bad("ValueError: data", Len(s))
        ELSE IF hasobject(h.dtype) /\ data # PickleNone
        THEN bad("UnpicklingError", h.pos)
        ELSE [outcome |-> "ok",
              value |-> [kind |-> "ndarray", dtype |-> h.dtype, shape |-> h.shape,
                         fortran_order |-> h.fortran_order, data |-> data],
              pos |-> pos + h.pos + need]

\* np.lib.npyio._cload(fid) (pickle.load), line 290: [ok, pos]
cload(cells, pos) ==
    IF StartsWith(Suffix(cells, pos), PickleNone)
    THEN [ok |-> TRUE, pos |-> pos + Len(PickleNone)]
    ELSE [ok |-> FALSE, pos |-> pos]

\* np.lib.npyio.NpzFile(fid), line 282: [ok]
NpzFile(cells, pos) == [ok |-> Suffix(cells, pos) = ZipArchive]

\* mutant: nothing is recognised as the array format
IsArrayFormat_Never(magic_) == FALSE

\* line 281 and line 283: the tests on the peeked bytes
IsZip(magic_) == StartsWith(magic_, ZIP_PREFIX)
IsArrayFormat(magic_) == magic_ = MAGIC_PREFIX

\* mutant: a file object passes for a file name
IsString_Any(file) == TRUE

\* line 137: isinstance(filename, basestring)
IsString(file) == file.path

\* lines 137-139, open_memmap called with a file argument that is a path or
\* a file object (as from line 285): what is not a string is refused first
open_memmap_file(d, file, mode, shape, offset) ==
    IF ~IsString(file)
    THEN Raise(d, "ValueError: Filename must be a string", <<>>)
    ELSE open_memmap(d, file.name, mode, Float64, shape, FALSE, <<1, 0>>, offset)

\* lines 276-293: the dispatch on the peeked bytes, fid at start on cells
LoadDispatch(d, file, cells, start, tr0, mmap_mode, offset, shape) ==
    LET pk == Peek(cells, start)
        tr == tr0 \o <<"read", "seek">>
    IN  IF ~pk.ok
        THEN LoadResult("IOError: seek", tr, d, <<>>, NoValue, TRUE, pk.pos, pk.pos)
        ELSE IF IsZip(pk.magic_)
        THEN IF NpzFile(cells, pk.pos).ok
             THEN LoadResult("ok", tr \o <<"NpzFile">>, d, <<>>,
                             [NoValue EXCEPT !.kind = "npz"], TRUE, pk.pos, pk.pos)
             ELSE LoadResult("BadZipfile", tr \o <<"NpzFile">>, d, <<>>, NoValue,
                             TRUE, pk.pos, pk.pos)
        ELSE IF IsArrayFormat(pk.magic_)
        THEN IF ModeGiven(mmap_mode)
             THEN LET r == open_memmap_file(d, file, mmap_mode, shape, offset)
                  IN  LoadResult(r.outcome, tr \o r.trace, r.disk, r.view,
                                 IF r.outcome = "ok"
                                 THEN [NoValue EXCEPT !.kind = "memmap"] ELSE NoValue,
                                 TRUE, pk.pos, pk.pos)
             ELSE LET a == read_array(cells, pk.pos)
                  IN  LoadResult(a.outcome, tr \o <<"read_array">>, d, <<>>, a.value,
                                 TRUE, pk.pos, a.pos)
        ELSE LET c == cload(cells, pk.pos)
             IN  IF c.ok
                 THEN LoadResult("ok", tr \o <<"_cload">>, d, <<>>,
                                 [NoValue EXCEPT !.kind = "object", !.data = PickleNone],
                                 TRUE, pk.pos, c.pos)
                 ELSE LoadResult("IOError: Failed to interpret file as a pickle",
                                 tr \o <<"_cload">>, d, <<>>, NoValue, TRUE, pk.pos, c.pos)

load(d, file, mmap_mode, offset, shape) ==
    IF ArgsNeedMmap(mmap_mode, offset, shape)
    THEN LoadResult("ValueError: Offset and shape should be used only with mmap_mode",
                    <<>>, d, <<>>, NoValue, FALSE, file.pos, file.pos)
    ELSE IF file.path
    THEN IF ~d[file.name].exists
         THEN LoadResult("IOError: open", <<>>, d, <<>>, NoValue, FALSE, 0, 0)
         ELSE LoadDispatch(d, file, d[file.name].cells, 0, <<"open">>,
                           mmap_mode, offset, shape)
    ELSE LoadDispatch(d, file, d[file.name].cells, file.pos, <<>>,
                      mmap_mode, offset, shape)

(***************************************************************************)
(* Reading and writing array elements: through a view, and in the file.    *)
(***************************************************************************)
\* the cell a view sees at file position p (1-based): its private copy in
\* copy-on-write mode, the file's cell otherwise
CellAt(d, v, p) ==
    IF p \in DOMAIN v.priv THEN v.priv[p] ELSE d[v.filename].cells[p]

\* the bytes of the view's element with flat index j (0-based)
ViewElem(d, v, j) ==
    [k \in 1..v.dtype.itemsize |-> CellAt(d, v, v.offset + j * v.dtype.itemsize + k)]

\* flat position of the entry idx (0-based, one entry per dimension) of an
\* array of the given shape and order
RECURSIVE FlatC(_, _)
FlatC(shape, idx) ==
    IF Len(shape) = 0 THEN 0
    ELSE idx[1] * Prod(Tail(shape)) + FlatC(Tail(shape), Tail(idx))

RECURSIVE FlatF(_, _)
FlatF(shape, idx) ==
    IF Len(shape) = 0 THEN 0
    ELSE idx[1] + shape[1] * FlatF(Tail(shape), Tail(idx))

Flat(shape, order, idx) == IF order = "F" THEN FlatF(shape, idx) ELSE FlatC(shape, idx)

\* the header of the stored array, as np.load would read it
StoredHeader(d, filename) ==
    read_array_header_1_0(d[filename].cells, read_magic(d[filename].cells).pos)

\* the bytes of the stored array's element with flat index i
FileElem(d, filename, i) ==
    LET h == StoredHeader(d, filename)
    IN  SubSeq(d[filename].cells, h.pos + i * h.dtype.itemsize + 1,
               h.pos + (i + 1) * h.dtype.itemsize)

\* number of elements the header announces
StoredSize(d, filename) == Prod(StoredHeader(d, filename).shape)

\* mutant: an assignment spills one byte into the next element
WrittenCells_Wide(v, j, val) ==
    LET enc == Encode(val, v.dtype.itemsize + 1)
        base == v.offset + j * v.dtype.itemsize
    IN  [p \in (base + 1)..(base + v.dtype.itemsize + 1) |-> enc[p - base]]

\* view[j] = val on a view: the cells it changes, as a function position -> byte
WrittenCells(v, j, val) ==
    LET enc == Encode(val, v.dtype.itemsize)
        base == v.offset + j * v.dtype.itemsize
    IN  [p \in (base + 1)..(base + v.dtype.itemsize) |-> enc[p - base]]

Overlay(f, g) == [p \in DOMAIN f \cup DOMAIN g |-> IF p \in DOMAIN g THEN g[p] ELSE f[p]]

(***************************************************************************)
(* State machine.                                                          *)
(***************************************************************************)
Indices == (0 - NegIdx)..MaxIdx

Workers == {1, 2}
NoVal == 0 - 1
NoWork ==
    [pc |-> [w \in Workers |-> "idle"], indices |-> [w \in Workers |-> <<>>],
     view |-> [w \in Workers |-> <<>>], orig |-> <<>>,
     expect |-> [i \in 0..MaxIdx |-> NoVal],
     win |-> <<0, 0>>, written |-> {}]

RECURSIVE SeqsUpTo(_, _)
SeqsUpTo(S, n) ==
    IF n = 0 THEN {<<>>}
    ELSE LET shorter == SeqsUpTo(S, n - 1)
         IN  shorter \cup {Append(s, x) : s \in {t \in shorter : Len(t) = n - 1}, x \in S}

IndexSeqs == SeqsUpTo(Indices, MaxLen)

Shape2D == <<2, 2>>
MapModes == {"r+", "r", "c"}
ShapeArgs == {None, <<1>>, <<MaxN + 1>>}
WriteVals == {42}
Versions == {<<1, 0>>, <<2, 0>>}
CreateModes == {"w+", "w"}
CreateShapes == {<<2>>, Shape2D}

InitialFiles ==
    {SavedFile(<<1, 0>>, dt, <<n>>, FALSE, ArangeBytes(0, n, dt.itemsize)) :
        n \in 1..MaxN, dt \in {Int1, Int2}}
    \cup {SavedFile(<<1, 0>>, Int2, Shape2D, fo, ArangeBytes(0, Prod(Shape2D), 2)) :
        fo \in BOOLEAN}
    \cup {SavedFile(<<2, 0>>, Int1, <<MaxN>>, FALSE, ArangeBytes(0, MaxN, 1))}
    \cup {SavedFile(<<1, 0>>, Obj, <<1>>, FALSE, PickleNone)}

NoCall ==
    [op |-> "none", filename |-> "", mode |-> "", indices |-> <<>>,
     check_contiguous |-> FALSE, shape |-> None, offset |-> 0, dtype |-> Float64,
     fortran_order |-> FALSE, version |-> <<1, 0>>, j |-> 0, val |-> 0,
     outcome |-> "", trace |-> <<>>, view |-> <<>>, retOffset |-> 0,
     file |-> [path |-> TRUE, name |-> "", pos |-> 0], value |-> NoValue,
     peeked |-> FALSE, peekPos |-> 0, pos |-> 0]

\* the caller is a script of at most MaxSteps operations; an uncaught
\* exception ends it
Running == last.outcome \in {"", "ok"} /\ steps < MaxSteps

NoMark == [set |-> FALSE, filename |-> "", k |-> 0, bytes |-> <<>>]

NoMade == [set |-> FALSE, filename |-> "", dtype |-> Float64, shape |-> <<>>,
           fortran_order |-> FALSE, offset |-> 0]

InitialDisks ==
    {[f \in FileNames |-> IF f = "test.npy" THEN file ELSE NoFile] : file \in InitialFiles}

Init ==
    /\ disk \in InitialDisks
    /\ views = <<>>
    /\ steps = 0
    /\ mark = NoMark
    /\ made = NoMade
    /\ work = NoWork
    /\ last = [NoCall EXCEPT !.op = "init"] @@ [before |-> disk]

OpenMemmapExisting ==
    \E filename \in FileNames, mode \in MapModes, shape \in ShapeArgs,
       offset \in Indices :
        LET r == open_memmap(disk, filename, mode, Float64, shape, FALSE, <<1, 0>>, offset)
        IN  /\ Running
            /\ views = <<>>          \* the script holds one memmap at a time
            /\ disk' = r.disk
            /\ views' = views \o r.view
            /\ steps' = steps + 1
            /\ mark' = mark
            /\ made' = made
            /\ work' = NoWork
            /\ last' = [NoCall EXCEPT !.op = "open_memmap", !.filename = filename,
                            !.mode = mode, !.shape = shape, !.offset = offset,
                            !.outcome = r.outcome, !.trace = r.trace, !.view = r.view]
                       @@ [before |-> disk]

\* open_memmap in a mode that creates the file
OpenMemmapCreate ==
    \E filename \in FileNames, mode \in CreateModes, dtype \in {Int1, Int2, Obj},
       shape \in CreateShapes, fortran_order \in BOOLEAN, version \in Versions,
       offset \in {0, 1} :
        LET r == open_memmap(disk, filename, mode, dtype, shape, fortran_order,
                             version, offset)
        IN  /\ Running
            /\ views = <<>>
            /\ ~made.set            \* the script creates one file
            /\ disk' = r.disk
            /\ views' = views \o r.view
            /\ steps' = steps + 1
            /\ mark' = IF mark.filename = filename /\ r.disk # disk THEN NoMark ELSE mark
            /\ work' = work
            /\ made' = IF r.outcome = "ok"
                       THEN [set |-> TRUE, filename |-> filename, dtype |-> dtype,
                             shape |-> shape, fortran_order |-> fortran_order,
                             offset |-> r.view[1].offset]
                       ELSE IF made.filename = filename /\ r.disk # disk THEN NoMade
                       ELSE made
            /\ last' = [NoCall EXCEPT !.op = "open_memmap_create", !.filename = filename,
                            !.mode = mode, !.dtype = dtype, !.shape = shape,
                            !.fortran_order = fortran_order, !.version = version,
                            !.offset = offset,
                            !.outcome = r.outcome, !.trace = r.trace, !.view = r.view]
                       @@ [before |-> disk]

\* view[j] = val through the memmap in slot i
ViewWrite ==
    \E i \in 1..Len(views), val \in WriteVals :
        \E j \in 0..(Prod(views[i].shape) - 1) :
            LET v == views[i]
                w == WrittenCells(v, j, val)
            IN  /\ Running
                /\ v.mode # "r"           \* a read-only memmap refuses assignment
                /\ steps' = steps + 1
                /\ made' = made
                /\ work' = IF v.mode # "r+" THEN work
                           ELSE LET w0 == IF work.orig = <<>>
                                         THEN [NoWork EXCEPT
                                                  !.orig = disk[v.filename].cells,
                                                  !.win = <<v.argOffset, Prod(v.shape)>>]
                                         ELSE work
                                IN  [w0 EXCEPT !.written =
                                        {p \in @ : p[1] # v.argOffset + j}
                                            \cup {<<v.argOffset + j, val>>}]
                /\ mark' = IF v.mode = "c" THEN mark
                           ELSE IF j = 0
                           THEN [set |-> TRUE, filename |-> v.filename,
                                 k |-> v.argOffset, bytes |-> Encode(val, v.dtype.itemsize)]
                           ELSE NoMark
                /\ disk' = IF v.mode = "r+"
                           THEN [disk EXCEPT ![v.filename].cells =
                                    [p \in DOMAIN @ |-> IF p \in DOMAIN w THEN w[p] ELSE @[p]]]
                           ELSE disk
                /\ views' = IF v.mode = "c"
                            THEN [views EXCEPT ![i].priv = Overlay(@, w)]
                            ELSE views
                /\ last' = [NoCall EXCEPT !.op = "write", !.filename = v.filename,
                                !.mode = v.mode, !.j = j, !.val = val, !.outcome = "ok",
                                !.view = <<v>>]
                           @@ [before |-> disk]

\* del view: the memmap in slot i is flushed and unmapped
ViewRelease ==
    \E i \in 1..Len(views) :
        /\ Running
        /\ disk' = disk
        /\ steps' = steps + 1
        /\ mark' = mark
        /\ made' = made /\ work' = work
        /\ views' = SubSeq(views, 1, i - 1) \o SubSeq(views, i + 1, Len(views))
        /\ last' = [NoCall EXCEPT !.op = "release", !.filename = views[i].filename,
                        !.outcome = "ok"]
                   @@ [before |-> disk]

Next ==
    \/ OpenMemmapExisting
    \/ ViewWrite
    \/ ViewRelease

Spec == Init /\ [][Next]_vars

(***************************************************************************)
(* Scripts that also create files: they open and release memmaps and do    *)
(* not assign through them.                                                *)
(***************************************************************************)
NextCreate ==
    \/ OpenMemmapCreate
    \/ OpenMemmapExisting
    \/ ViewRelease

SpecCreate == Init /\ [][NextCreate]_vars

(***************************************************************************)
(* memmap_chunk_ind on its own: the arguments of one call are drawn in the *)
(* initial state, the call is made, and the memmap it returns is released. *)
(***************************************************************************)
InitChunk ==
    /\ disk \in InitialDisks
    /\ views = <<>>
    /\ steps = 0
    /\ mark = NoMark
    /\ made = NoMade
    /\ work = NoWork
    /\ \E filename \in FileNames, indices \in IndexSeqs, mode \in MapModes,
          check_contiguous \in BOOLEAN :
           last = [NoCall EXCEPT !.op = "pending", !.filename = filename,
                       !.indices = indices, !.mode = mode,
                       !.check_contiguous = check_contiguous]
                  @@ [before |-> disk]

MemmapChunkInd ==
    LET r == memmap_chunk_ind(disk, last.filename, last.indices, last.mode,
                              last.check_contiguous)
    IN  /\ last.op = "pending"
        /\ disk' = r.disk
        /\ views' = views \o r.view
        /\ steps' = steps + 1
        /\ mark' = mark
        /\ made' = made /\ work' = work
        /\ last' = [last EXCEPT !.op = "memmap_chunk_ind", !.outcome = r.outcome,
                        !.trace = r.trace, !.view = r.view, !.retOffset = r.offset,
                        !.before = disk]

NextChunk ==
    \/ MemmapChunkInd
    \/ ViewRelease

SpecChunk == InitChunk /\ [][NextChunk]_vars

(***************************************************************************)
(* load on its own: one call, its arguments drawn in the initial state.    *)
(* test.npy holds a saved array, a pickle, a zip archive, bytes that are   *)
(* none of these, or one of them after a leading byte; the file argument   *)
(* is a path or a file object opened on test.npy at some position.         *)
(***************************************************************************)
Junk == 7
LoadModes == {NoMode} \cup MapModes \cup {"w+"}
LoadShapes == {None, <<0>>, <<2>>}
LoadOffsets == {0, 1}

RawFile(cells) == [exists |-> TRUE, cells |-> cells]

LoadFiles ==
    InitialFiles
    \cup {RawFile(c) : c \in {PickleNone, ZipArchive, <<>>, <<Junk>>, <<Junk, Junk, Junk>>,
                               ZIP_PREFIX \o <<Junk>>, <<Junk>> \o PickleNone}}
    \cup {RawFile(<<Junk>> \o SavedFile(<<1, 0>>, Int2, <<2>>, FALSE,
                                         ArangeBytes(0, 2, 2)).cells)}

FileArgs(d) ==
    {[path |-> TRUE, name |-> f, pos |-> 0] : f \in FileNames}
    \cup {[path |-> FALSE, name |-> "test.npy", pos |-> p] :
              p \in 0..Len(d["test.npy"].cells)}

InitLoad ==
    /\ disk \in {[f \in FileNames |-> IF f = "test.npy" THEN file ELSE NoFile] :
                    file \in LoadFiles}
    /\ views = <<>>
    /\ steps = 0
    /\ mark = NoMark
    /\ made = NoMade
    /\ work = NoWork
    /\ \E file \in FileArgs(disk), mmap_mode \in LoadModes, offset \in LoadOffsets,
          shape \in LoadShapes :
           last = [NoCall EXCEPT !.op = "pending", !.file = file, !.filename = file.name,
                       !.mode = mmap_mode, !.offset = offset, !.shape = shape]
                  @@ [before |-> disk]

Load ==
    LET r == load(disk, last.file, last.mode, last.offset, last.shape)
    IN  /\ last.op = "pending"
        /\ disk' = r.disk
        /\ views' = views \o r.view
        /\ steps' = steps + 1
        /\ mark' = mark
        /\ made' = made /\ work' = work
        /\ last' = [last EXCEPT !.op = "load", !.outcome = r.outcome, !.trace = r.trace,
                        !.view = r.view, !.value = r.value, !.peeked = r.peeked,
                        !.peekPos = r.peekPos, !.pos = r.pos, !.before = disk]

\* open_memmap(file, mode, shape=shape, offset=offset) called directly with
\* the same arguments; without a mode it uses its default, 'r+'
OpenMemmapFile ==
    LET mode == IF last.mode = NoMode THEN "r+" ELSE last.mode
        r == open_memmap_file(disk, last.file, mode, last.shape, last.offset)
    IN  /\ last.op = "pending"
        /\ disk' = r.disk
        /\ views' = views \o r.view
        /\ steps' = steps + 1
        /\ mark' = mark
        /\ made' = made /\ work' = work
        /\ last' = [last EXCEPT !.op = "open_memmap", !.mode = mode,
                        !.outcome = r.outcome, !.trace = r.trace, !.view = r.view,
                        !.before = disk]

NextLoad ==
    \/ Load
    \/ OpenMemmapFile
    \/ ViewRelease

SpecLoad == InitLoad /\ [][NextLoad]_vars

(***************************************************************************)
(* Two worker processes on one file: each calls memmap_chunk_ind(filename, *)
(* its indices) with the default mode 'r+', assigns elements through the   *)
(* memmap it gets, and releases it.  The index ranges are contiguous and   *)
(* disjoint; the steps of the two workers interleave freely.  The memmaps  *)
(* are shared mappings of the file: an assignment is a write to the file.  *)
(***************************************************************************)
WorkerVals == {41, 42}

WorkerFiles ==
    {SavedFile(<<1, 0>>, dt, <<MaxN>>, FALSE, ArangeBytes(0, MaxN, dt.itemsize)) :
        dt \in {Int1, Int2}}
    \cup {SavedFile(<<2, 0>>, Int1, <<MaxN>>, FALSE, ArangeBytes(0, MaxN, 1))}

\* pairs of disjoint ranges lo1..hi1 and lo2..hi2 of nonnegative indices
RangePairs ==
    {<<arange(lo1, hi1 + 1), arange(lo2, hi2 + 1)>> :
        <<lo1, hi1, lo2, hi2>> \in
            {q \in (0..MaxIdx) \X (0..MaxIdx) \X (0..MaxIdx) \X (0..MaxIdx) :
                q[1] <= q[2] /\ q[2] < q[3] /\ q[3] <= q[4]}}

InitWorkers ==
    /\ disk \in {[f \in FileNames |-> IF f = "test.npy" THEN file ELSE NoFile] :
                    file \in WorkerFiles}
    /\ views = <<>>
    /\ steps = 0
    /\ mark = NoMark
    /\ made = NoMade
    /\ last = [NoCall EXCEPT !.op = "init"] @@ [before |-> disk]
    /\ \E pair \in RangePairs, swap \in BOOLEAN :
           work = [NoWork EXCEPT !.orig = disk["test.npy"].cells,
                       !.indices = [w \in Workers |->
                                       IF (w = 1) = swap THEN pair[2] ELSE pair[1]]]

WorkerOpen ==
    \E w \in Workers :
        LET r == memmap_chunk_ind(disk, "test.npy", work.indices[w], "r+", TRUE)
        IN  /\ work.pc[w] = "idle"
            /\ disk' = r.disk
            /\ work' = [work EXCEPT !.pc[w] = IF r.outcome = "ok" THEN "mapped" ELSE "failed",
                                    !.view[w] = r.view]
            /\ steps' = steps + 1
            /\ UNCHANGED <<views, mark, made>>
            /\ last' = [NoCall EXCEPT !.op = "worker_open", !.filename = "test.npy",
                            !.indices = work.indices[w], !.mode = "r+",
                            !.check_contiguous = TRUE, !.outcome = r.outcome,
                            !.trace = r.trace, !.view = r.view, !.retOffset = r.offset]
                       @@ [before |-> disk]

\* mmap[j] = val by worker w; element j of its memmap is element offset + j
WorkerWrite ==
    \E w \in Workers, val \in WorkerVals :
        /\ work.pc[w] = "mapped"
        /\ steps < MaxSteps
        /\ \E j \in 0..(Prod(work.view[w][1].shape) - 1) :
              LET v == work.view[w][1]
                  wr == WrittenCells(v, j, val)
              IN  /\ disk' = [disk EXCEPT ![v.filename].cells =
                                  [p \in DOMAIN @ |-> IF p \in DOMAIN wr THEN wr[p] ELSE @[p]]]
                  /\ work' = [work EXCEPT !.expect[v.argOffset + j] = val]
                  /\ steps' = steps + 1
                  /\ UNCHANGED <<views, mark, made>>
                  /\ last' = [NoCall EXCEPT !.op = "worker_write", !.filename = v.filename,
                                  !.mode = v.mode, !.j = j, !.val = val, !.outcome = "ok",
                                  !.view = <<v>>]
                             @@ [before |-> disk]

\* del mmap by worker w
WorkerRelease ==
    \E w \in Workers :
        /\ work.pc[w] = "mapped"
        /\ work' = [work EXCEPT !.pc[w] = "released", !.view[w] = <<>>]
        /\ steps' = steps + 1
        /\ UNCHANGED <<disk, views, mark, made>>
        /\ last' = [NoCall EXCEPT !.op = "worker_release", !.filename = "test.npy",
                        !.outcome = "ok"]
                   @@ [before |-> disk]

NextWorkers ==
    \/ WorkerOpen
    \/ WorkerWrite
    \/ WorkerRelease

SpecWorkers == InitWorkers /\ [][NextWorkers]_vars

(***************************************************************************)
(* Properties.                                                             *)
(***************************************************************************)
ChunkReturned == last.op = "memmap_chunk_ind" /\ last.outcome = "ok"
OpenReturned == last.op = "open_memmap" /\ last.outcome = "ok"
TheView == last.view[1]
NotContiguousError == "AssertionError: Indices not contiguous"
Lo(indices) == Min(Range(indices))
Hi(indices) == Max(Range(indices))

\* the file held a 1-D array before the call
Stored1D(d, filename) ==
    /\ d[filename].exists
    /\ StoredHeader(d, filename).ok
    /\ Len(StoredHeader(d, filename).shape) = 1

\* the indices are a permutation of a range lo..hi, each value once
PermutationOfRange(indices) ==
    /\ Cardinality(Range(indices)) = Len(indices)
    /\ Range(indices) = Lo(indices)..Hi(indices)

\* C1: whenever memmap_chunk_ind returns, the offset it returns is the
\* smallest index and the memmap has (largest - smallest + 1) elements,
\* whatever the order of the indices.
C1_CoveringRange ==
    ChunkReturned =>
        /\ last.retOffset = Lo(last.indices)
        /\ TheView.argOffset = Lo(last.indices)
        /\ TheView.shape = <<Hi(last.indices) - Lo(last.indices) + 1>>

C1_Witness ==
    /\ ChunkReturned
    /\ last.indices = <<2, 0, 1>>
    /\ last.retOffset = 0
    /\ TheView.shape = <<3>>

\* C2: with check_contiguous=True and at least one index, the call raises
\* "Indices not contiguous" exactly when the indices are not a permutation
\* of a contiguous range.
C2_ContiguityCheck ==
    (last.op = "memmap_chunk_ind" /\ last.check_contiguous /\ last.indices # <<>>) =>
        ((last.outcome = NotContiguousError) <=> ~PermutationOfRange(last.indices))

C2_Witness ==
    /\ ChunkReturned
    /\ last.check_contiguous
    /\ last.indices = <<2, 0, 1>>

\* C3: with check_contiguous=False the call never raises "Indices not
\* contiguous"; when it returns, the memmap spans the whole covering range,
\* the positions that were not asked for included.
C3_NoCheck ==
    (last.op = "memmap_chunk_ind" /\ ~last.check_contiguous /\ last.indices # <<>>) =>
        /\ last.outcome # NotContiguousError
        /\ last.outcome = "ok" =>
            /\ last.retOffset = Lo(last.indices)
            /\ TheView.shape = <<Hi(last.indices) - Lo(last.indices) + 1>>

C3_Witness ==
    /\ ChunkReturned
    /\ ~last.check_contiguous
    /\ last.indices = <<0, 2>>
    /\ TheView.shape = <<3>>
    /\ Stored1D(last.before, last.filename)
    /\ StoredSize(last.before, last.filename) = 3
    /\ ViewElem(disk, TheView, 1) = FileElem(last.before, last.filename, 1)

\* C4: on a 1-D array, when unsorted indices pass the contiguity check, the
\* memmap holds the stored elements in ascending index order, and for every
\* index i given (that is a position of the array) view[i - offset] is the
\* stored element i.
C4_Reordering ==
    (ChunkReturned /\ last.check_contiguous /\ Stored1D(last.before, last.filename)) =>
        LET size == StoredSize(last.before, last.filename)
        IN  /\ \A k \in 1..Len(last.indices) :
                 LET i == last.indices[k]
                 IN  (0 <= i /\ i < size) =>
                        ViewElem(disk, TheView, i - last.retOffset)
                            = FileElem(last.before, last.filename, i)
            /\ \A j \in 0..(TheView.shape[1] - 1) :
                 (0 <= last.retOffset + j /\ last.retOffset + j < size) =>
                        ViewElem(disk, TheView, j)
                            = FileElem(last.before, last.filename, last.retOffset + j)

C4_Witness ==
    /\ ChunkReturned
    /\ last.check_contiguous
    /\ last.indices = <<1, 2, 0>>
    /\ Stored1D(last.before, last.filename)
    /\ StoredHeader(last.before, last.filename).dtype = Int2
    /\ ViewElem(disk, TheView, 2) = <<2, 0>>

\* C5: with no index at all the call fails (IndexError, the invalid-input
\* failure of this code) for either value of check_contiguous, and no file
\* is opened, mapped or changed.
C5_EmptyIndices ==
    (last.op = "memmap_chunk_ind" /\ last.indices = <<>>) =>
        /\ last.outcome = "IndexError: list index out of range"
        /\ last.trace = <<>>
        /\ last.view = <<>>
        /\ views = <<>>
        /\ disk = last.before

C5_Witness ==
    /\ last.op = "memmap_chunk_ind"
    /\ last.indices = <<>>
    /\ ~last.check_contiguous
    /\ disk["test.npy"].exists

\* the position right after the header: magic, version, the length cell and
\* as many header cells as the length cell says
DataOffsetOf(cells) == N + 2 + 1 + cells[N + 2 + 1]

\* C6: on a 1-D array of size elements, a read-write memmap opened with
\* offset=k, 0 <= k < size, has as element 0 the stored element k; and once
\* its element 0 has been assigned and the memmap released, a memmap opened
\* with offset 0 shows the assigned value at index k.
C6_OffsetCorrectness ==
    (OpenReturned /\ Stored1D(last.before, last.filename)) =>
        LET size == StoredSize(last.before, last.filename)
        IN  /\ (last.mode = "r+" /\ 0 <= last.offset /\ last.offset < size) =>
                   ViewElem(disk, TheView, 0)
                       = FileElem(last.before, last.filename, last.offset)
            /\ ( /\ last.offset = 0
                 /\ mark.set /\ mark.filename = last.filename
                 /\ 0 <= mark.k /\ mark.k < size
                 /\ mark.k < TheView.shape[1] ) =>
                   ViewElem(disk, TheView, mark.k) = mark.bytes

C6_Witness ==
    /\ OpenReturned
    /\ last.offset = 0
    /\ mark.set /\ mark.filename = last.filename /\ mark.k = 2
    /\ Stored1D(last.before, last.filename)
    /\ StoredHeader(last.before, last.filename).dtype = Int2
    /\ ViewElem(disk, TheView, 2) = <<42, 0>>
    /\ ViewElem(disk, TheView, 1) = <<1, 0>>

\* C7: a memmap of an existing file starts at byte
\* dataOffset + offset * itemsize; its outer dimension is the shape the
\* caller gave, and without one the stored outer dimension minus offset
\* (the whole stored shape when offset is 0).
C7_WindowOfExistingFile ==
    OpenReturned =>
        LET cells == last.before[last.filename].cells
            h == StoredHeader(last.before, last.filename)
        IN  /\ TheView.offset = DataOffsetOf(cells) + last.offset * h.dtype.itemsize
            /\ last.shape # None => TheView.shape[1] = last.shape[1]
            /\ last.shape = None => TheView.shape[1] = h.shape[1] - last.offset
            /\ (last.shape = None /\ last.offset = 0) => TheView.shape = h.shape

C7_Witness ==
    /\ OpenReturned
    /\ last.shape = None
    /\ last.offset = 2
    /\ TheView.shape = <<1>>
    /\ TheView.dtype = Int2
    /\ TheView.offset = 20

\* the length of the view an open_memmap call on an existing file asks for
EffectiveLength(h) == IF last.shape # None THEN last.shape[1] ELSE h.shape[1] - last.offset

\* C8 (as claimed): opening an existing file with offset + length beyond the
\* stored outer dimension fails, returns no memmap and leaves the file as it
\* was.
C8_BoundsError ==
    ( /\ last.op = "open_memmap"
      /\ last.before[last.filename].exists
      /\ StoredHeader(last.before, last.filename).ok
      /\ read_magic(last.before[last.filename].cells).version = <<1, 0>>
      /\ last.offset >= 0
      /\ LET h == StoredHeader(last.before, last.filename)
         IN  last.offset + EffectiveLength(h) > h.shape[1] ) =>
        /\ last.outcome # "ok"
        /\ last.view = <<>>
        /\ disk = last.before

\* C9 (as claimed): for a stored array of more than one dimension, offset=k
\* without a shape gives a memmap of shape (R-k, C) whose entry [j, c] is the
\* stored entry [k+j, c].
C9_OffsetAlongFirstDimension ==
    ( /\ OpenReturned
      /\ last.shape = None
      /\ last.offset >= 0
      /\ Len(StoredHeader(last.before, last.filename).shape) = 2 ) =>
        LET h == StoredHeader(last.before, last.filename)
            k == last.offset
            order == IF h.fortran_order THEN "F" ELSE "C"
        IN  /\ TheView.shape = <<h.shape[1] - k, h.shape[2]>>
            /\ \A j \in 0..(h.shape[1] - k - 1), c \in 0..(h.shape[2] - 1) :
                   ViewElem(disk, TheView, Flat(TheView.shape, TheView.order, <<j, c>>))
                       = FileElem(last.before, last.filename,
                                  Flat(h.shape, order, <<k + j, c>>))

\* C10: a format version other than (1,0) is always refused: opening an
\* existing file that claims another version fails before the header record
\* is read and before anything is mapped, and creating a file with another
\* version fails before the file is created; the disk is left as it was.
C10_VersionGate ==
    /\ ( /\ last.op = "open_memmap"
         /\ last.before[last.filename].exists
         /\ read_magic(last.before[last.filename].cells).ok
         /\ read_magic(last.before[last.filename].cells).version # <<1, 0>> ) =>
            /\ last.outcome = "ValueError: version"
            /\ \A i \in 1..Len(last.trace) : last.trace[i] \notin {"read_header", "memmap"}
            /\ last.view = <<>> /\ views = <<>>
            /\ disk = last.before
    /\ (last.op = "open_memmap_create" /\ last.version # <<1, 0>>) =>
            /\ last.outcome \in {"ValueError: version",
                                 "AssertionError: Cannot specify offset when creating memmap"}
            /\ last.trace = <<>>
            /\ last.view = <<>> /\ views = <<>>
            /\ disk = last.before

C10_Witness ==
    /\ last.op = "open_memmap"
    /\ last.filename = "test.npy"
    /\ last.mode = "r+"
    /\ read_magic(last.before["test.npy"].cells).version = <<2, 0>>
    /\ last.outcome = "ValueError: version"
    /\ last.trace = <<"open", "read_magic", "close">>

\* C11: open_memmap in a creating mode with a dtype that holds Python objects
\* fails and leaves every file as it was (with the "Python objects in dtype"
\* error when the offset and version arguments are valid); opening an
\* existing file whose header gives such a dtype fails with that error and
\* returns no memmap.
C11_UnsafeTypeRejected ==
    /\ (last.op = "open_memmap_create" /\ last.dtype.kind = KindObject) =>
            /\ last.outcome # "ok"
            /\ last.view = <<>>
            /\ disk = last.before
            /\ (last.offset = 0 /\ last.version = <<1, 0>>) =>
                    /\ last.outcome = "ValueError: Python objects in dtype"
                    /\ last.trace = <<>>
    /\ (/\ last.op = "open_memmap"
        /\ last.before[last.filename].exists
        /\ read_magic(last.before[last.filename].cells).ok
        /\ read_magic(last.before[last.filename].cells).version = <<1, 0>>
        /\ StoredHeader(last.before, last.filename).ok
        /\ StoredHeader(last.before, last.filename).dtype.kind = KindObject) =>
            /\ last.outcome = "ValueError: Python objects in dtype"
            /\ last.view = <<>>
            /\ views = <<>>
            /\ disk = last.before

C11_Witness ==
    /\ last.op = "open_memmap_create"
    /\ last.dtype = Obj
    /\ last.offset = 0
    /\ last.version = <<1, 0>>
    /\ last.filename = "test.npy"
    /\ last.before["test.npy"].exists
    /\ last.outcome = "ValueError: Python objects in dtype"
    /\ disk = last.before

\* C12: open_memmap in a mode containing 'w' with a nonzero offset fails with
\* "Cannot specify offset when creating memmap" before any file is created
\* or truncated.
C12_NoOffsetOnCreate ==
    (last.op = "open_memmap_create" /\ last.offset # 0) =>
        /\ last.outcome = "AssertionError: Cannot specify offset when creating memmap"
        /\ last.trace = <<>>
        /\ last.view = <<>>
        /\ disk = last.before

C12_Witness ==
    /\ last.op = "open_memmap_create"
    /\ last.offset = 1
    /\ last.mode = "w"
    /\ last.dtype = Int2
    /\ last.filename = "test.npy"
    /\ last.before["test.npy"].exists
    /\ last.outcome = "AssertionError: Cannot specify offset when creating memmap"
    /\ disk = last.before

\* the load call under examination: where its file object started, the
\* bytes of the file it read, and whether they begin with the array magic
ArgsError == "ValueError: Offset and shape should be used only with mmap_mode"
StartPos == IF last.file.path THEN 0 ELSE last.file.pos
StartCells == Suffix(last.before[last.file.name].cells, StartPos)
LoadPeeked == last.op = "load" /\ last.peeked
MagicAtStart == StartsWith(StartCells, MAGIC_PREFIX)
ZipAtStart == StartsWith(StartCells, ZIP_PREFIX)
FullPeek == Len(StartCells) >= N          \* at least N bytes were left to read

\* C13: load with no mmap_mode but with a nonzero offset or a shape fails
\* with "Offset and shape should be used only with mmap_mode" before the
\* file is opened or any byte is read.
C13_ArgsWithoutMmap ==
    (last.op = "load" /\ last.mode = NoMode /\ (last.offset # 0 \/ last.shape # None)) =>
        /\ last.outcome = ArgsError
        /\ last.trace = <<>>
        /\ ~last.peeked

\* C14: load with a mmap_mode and a nonzero offset or a shape, on a stream
\* that is not detected as the array format, fails with the "Offset and
\* shape" error rather than returning an archive or an unpickled object.
C14_ArgsOnNonArrayStream ==
    (/\ LoadPeeked
     /\ FullPeek
     /\ last.mode # NoMode
     /\ (last.offset # 0 \/ last.shape # None)
     /\ ~MagicAtStart) =>
        /\ last.outcome = ArgsError
        /\ last.value.kind \notin {"npz", "object"}

\* C15 as stated: whenever the bytes at the current position are the array
\* magic (of a supported, mappable array) and a mmap_mode is given, load
\* returns a memmap, for a path and for an open stream alike.
C15_Dispatch ==
    (/\ LoadPeeked
     /\ MagicAtStart
     /\ last.mode # NoMode
     /\ last.shape = None /\ last.offset = 0
     /\ read_array(last.before[last.file.name].cells, StartPos).outcome = "ok"
     /\ read_array(last.before[last.file.name].cells, StartPos).value.dtype # Obj) =>
        /\ last.outcome = "ok"
        /\ last.value.kind = "memmap"
        /\ Len(last.view) = 1

\* C15, amended: input whose bytes at the current position are the array
\* magic goes to the array parser and to no other.  Without mmap_mode the
\* array is read from the stream's position (path or open stream, at the
\* start of the file or inside it); with mmap_mode a path is handed to
\* open_memmap and yields a memmap when that succeeds, and an open stream is
\* refused with "Filename must be a string".
C15_DispatchAmended ==
    (LoadPeeked /\ MagicAtStart) =>
        LET h == read_array_header_1_0(StartCells, N + 2)
        IN  /\ last.value.kind \notin {"npz", "object"}
            /\ last.outcome \notin {"IOError: Failed to interpret file as a pickle",
                                     "BadZipfile", "IOError: seek"}
            /\ last.mode = NoMode =>
                    /\ last.trace[Len(last.trace)] = "read_array"
                    /\ last.view = <<>>
                    /\ last.outcome = "ok" =>
                            /\ last.value.kind = "ndarray"
                            /\ last.value.dtype = h.dtype
                            /\ last.value.shape = h.shape
                            /\ last.value.fortran_order = h.fortran_order
                            /\ last.value.data =
                                   SubSeq(StartCells, h.pos + 1, h.pos + Len(last.value.data))
                            /\ h.dtype # Obj =>
                                   Len(last.value.data) = Prod(h.shape) * h.dtype.itemsize
            /\ (last.mode # NoMode /\ last.file.path) =>
                    /\ last.outcome = "ok" =>
                            /\ last.value.kind = "memmap"
                            /\ Len(last.view) = 1
                            /\ last.view[1].filename = last.file.name
                            /\ ~HasW(last.mode) => last.view[1].dtype = h.dtype
                    /\ last.outcome # "ok" => last.view = <<>>
            /\ (last.mode # NoMode /\ ~last.file.path) =>
                    /\ last.outcome = "ValueError: Filename must be a string"
                    /\ last.view = <<>>
                    /\ disk = last.before

C15_Witness ==
    /\ last.op = "load"
    /\ ~last.file.path
    /\ last.file.pos = 1
    /\ last.mode = NoMode
    /\ last.outcome = "ok"
    /\ last.value.kind = "ndarray"
    /\ last.value.shape = <<2>>
    /\ last.value.data = ArangeBytes(0, 2, 2)

\* C16: a stream whose bytes at the current position are neither the array
\* magic nor the zip signature is handed to the unpickler; load returns the
\* object when those bytes are a pickle and raises "Failed to interpret
\* file as a pickle" otherwise.
C16_Fallback ==
    (/\ last.op = "load"
     /\ last.outcome # ArgsError
     /\ last.before[last.file.name].exists
     /\ ~MagicAtStart
     /\ ~ZipAtStart) =>
        \/ /\ last.outcome = "ok"
           /\ last.value.kind = "object"
           /\ StartsWith(StartCells, PickleNone)
        \/ /\ last.outcome = "IOError: Failed to interpret file as a pickle"
           /\ last.value = NoValue

\* C17: the peek at the magic consumes nothing: after fid.read(N) and
\* fid.seek(-N, 1) the stream is where it was, also when fewer than N bytes
\* were left.
C17_PeekNonConsuming ==
    LoadPeeked => last.peekPos = StartPos

\* handles opened and not closed by the steps of a call
RECURSIVE OpenHandles(_)
OpenHandles(trace) ==
    IF trace = <<>> THEN 0
    ELSE OpenHandles(Tail(trace))
         + (IF Head(trace) \in {"open", "create"} THEN 1
            ELSE IF Head(trace) = "close" THEN 0 - 1 ELSE 0)

\* C20: when open_memmap or load returns or raises, every file handle it
\* opened has been closed, but for the one inside a returned NpzFile.
C20_ScopedRelease ==
    (last.op \in {"load", "open_memmap", "open_memmap_create"}) =>
        OpenHandles(last.trace) = (IF last.value.kind = "npz" /\ last.file.path THEN 1 ELSE 0)

\* C19: a file created by open_memmap in a write mode and then opened as an
\* existing file (no shape, no offset) yields a memmap with the dtype, shape
\* and order it was created with, mapped at the byte offset at which the
\* creator mapped the data.
C19_HeaderRoundTrip ==
    (/\ last.op = "open_memmap"
     /\ made.set
     /\ last.filename = made.filename
     /\ last.shape = None
     /\ last.offset = 0) =>
        /\ last.outcome = "ok"
        /\ TheView.dtype = made.dtype
        /\ TheView.shape = made.shape
        /\ TheView.order = (IF made.fortran_order THEN "F" ELSE "C")
        /\ TheView.offset = made.offset

C19_Witness ==
    /\ OpenReturned
    /\ last.mode = "r"
    /\ last.shape = None
    /\ last.offset = 0
    /\ made.set
    /\ made.filename = last.filename
    /\ made.fortran_order
    /\ made.shape = Shape2D
    /\ made.dtype = Int2
    /\ TheView.order = "F"
    /\ TheView.shape = Shape2D

\* the bytes element i of the data had in the file the workers started
\* from; zero bytes where a read-write open had to extend the file
OrigElem(i) ==
    LET h == read_array_header_1_0(work.orig, read_magic(work.orig).pos)
        lo == h.pos + i * h.dtype.itemsize
    IN  [k \in 1..h.dtype.itemsize |->
            IF lo + k <= Len(work.orig) THEN work.orig[lo + k] ELSE 0]

BothReleased == \A w \in Workers : work.pc[w] = "released"

\* C18: two workers that open read-write memmaps through memmap_chunk_ind
\* over disjoint contiguous index ranges of one file may assign in any
\* interleaving: once both have released, each element that was assigned
\* holds the value last assigned to it by the worker owning its range, every
\* other element and the header are as they were.
C18_DisjointWorkers ==
    BothReleased =>
        LET h == StoredHeader(disk, "test.npy")
            cells == disk["test.npy"].cells
        IN  /\ SubSeq(cells, 1, h.pos) = SubSeq(work.orig, 1, h.pos)
            /\ \A i \in 0..MaxIdx :
                  IF Len(cells) >= h.pos + (i + 1) * h.dtype.itemsize
                  THEN FileElem(disk, "test.npy", i) =
                          (IF work.expect[i] # NoVal
                           THEN Encode(work.expect[i], h.dtype.itemsize)
                           ELSE OrigElem(i))
                  ELSE work.expect[i] = NoVal
            /\ \A i \in 0..MaxIdx :
                  work.expect[i] # NoVal =>
                      \E w \in Workers : i \in Range(work.indices[w])

C18_Witness ==
    /\ BothReleased
    /\ work.indices[1] = <<0, 1>>
    /\ work.indices[2] = <<2>>
    /\ work.expect[0] = NoVal
    /\ work.expect[1] = 41
    /\ work.expect[2] = 42
    /\ StoredHeader(disk, "test.npy").dtype = Int2
    /\ FileElem(disk, "test.npy", 0) = <<0, 0>>
    /\ FileElem(disk, "test.npy", 1) = <<41, 0>>
    /\ FileElem(disk, "test.npy", 2) = <<42, 0>>

\* C21: open_memmap called with a file object instead of a file name raises
\* ValueError before it looks at the mode, reads a header, or creates or maps
\* any file.
C21_FilenameMustBeString ==
    (last.op = "open_memmap" /\ ~last.file.path) =>
        /\ last.outcome = "ValueError: Filename must be a string"
        /\ last.trace = <<>>
        /\ last.view = <<>>
        /\ views = <<>>
        /\ disk = last.before

C21_Witness ==
    /\ last.op = "open_memmap"
    /\ ~last.file.path
    /\ last.mode = "w+"
    /\ last.before["test.npy"].exists
    /\ last.outcome = "ValueError: Filename must be a string"
    /\ disk = last.before

\* the header and the element data of the array stored in cells
HeaderAndData(cells) ==
    LET h == read_array_header_1_0(cells, read_magic(cells).pos)
    IN  SubSeq(cells, 1, h.pos + (IF h.dtype = Obj THEN Len(PickleNone)
                                  ELSE Prod(h.shape) * h.dtype.itemsize))

\* C25: when load returns from a call on an existing file that holds a
\* saved array, whatever the mmap_mode (None, 'r+', 'r', 'w+', 'c'), the
\* header and the element data in the file are what they were before.
C25_LoadLeavesFile ==
    (/\ last.op = "load"
     /\ last.outcome = "ok"
     /\ read_array(last.before[last.file.name].cells, 0).outcome = "ok"
     /\ StartPos = 0) =>
        /\ Len(disk[last.file.name].cells) >=
               Len(HeaderAndData(last.before[last.file.name].cells))
        /\ SubSeq(disk[last.file.name].cells, 1,
                  Len(HeaderAndData(last.before[last.file.name].cells)))
               = HeaderAndData(last.before[last.file.name].cells)

\* some value occurs twice in the collection
HasDuplicate(indices) == Cardinality(Range(indices)) < Len(indices)

\* C23: with check_contiguous=True every index collection holding a value
\* twice is refused with "Indices not contiguous", also when the number of
\* indices equals the length of the covering range; none is mapped.
C23_DuplicatesRejected ==
    (last.op = "memmap_chunk_ind" /\ last.check_contiguous /\ HasDuplicate(last.indices)) =>
        /\ last.outcome = NotContiguousError
        /\ last.view = <<>>
        /\ views = <<>>
        /\ last.trace = <<>>
        /\ disk = last.before

C23_Witness ==
    /\ last.op = "memmap_chunk_ind"
    /\ last.check_contiguous
    /\ last.indices = <<1, 1, 3>>
    /\ Len(last.indices) = Hi(last.indices) - Lo(last.indices) + 1
    /\ last.outcome = NotContiguousError

\* C24: a memmap returned by open_memmap or memmap_chunk_ind, whatever the
\* offset or indices (negative ones included) and also for a file just
\* created, starts at or after the data offset of its file, and an
\* assignment through a memmap leaves magic, version and header as they were.
C24_HeaderOutOfReach ==
    /\ (last.op \in {"open_memmap", "open_memmap_create", "memmap_chunk_ind"}
           /\ last.outcome = "ok") =>
            TheView.offset >= DataOffsetOf(disk[last.filename].cells)
    /\ (last.op = "write" /\ last.mode = "r+") =>
            LET hlen == DataOffsetOf(last.before[last.filename].cells)
            IN  SubSeq(disk[last.filename].cells, 1, hlen)
                   = SubSeq(last.before[last.filename].cells, 1, hlen)

\* C22: assignments through a read-write memmap opened with an offset (not
\* negative) and a shape change only file elements inside the window
\* offset..offset+length-1: once the memmap is released, the file shows at
\* each assigned element the value last assigned, and the header and every
\* other element as they were.
C22_WritesStayInWindow ==
    (last.op = "release" /\ work.orig # <<>> /\ work.win[1] >= 0) =>
        LET h == read_array_header_1_0(work.orig, read_magic(work.orig).pos)
            cells == disk[last.filename].cells
            n == (Len(cells) - h.pos) \div h.dtype.itemsize
        IN  /\ Len(cells) = Len(work.orig)
            /\ SubSeq(cells, 1, h.pos) = SubSeq(work.orig, 1, h.pos)
            /\ \A p \in work.written :
                  /\ work.win[1] <= p[1]
                  /\ p[1] < work.win[1] + work.win[2]
                  /\ p[1] < n
                  /\ FileElem(disk, last.filename, p[1]) = Encode(p[2], h.dtype.itemsize)
            /\ \A i \in 0..(n - 1) :
                  (\A p \in work.written : p[1] # i) =>
                      FileElem(disk, last.filename, i) = OrigElem(i)

C22_Witness ==
    /\ last.op = "release"
    /\ work.win = <<1, 1>>
    /\ work.written = {<<1, 42>>}
    /\ StoredHeader(disk, "test.npy").dtype = Int2
    /\ StoredSize(disk, "test.npy") = 3
    /\ FileElem(disk, "test.npy", 0) = <<0, 0>>
    /\ FileElem(disk, "test.npy", 1) = <<42, 0>>
    /\ FileElem(disk, "test.npy", 2) = <<2, 0>>

====
